---- MODULE Spec2Model ----
(***************************************************************************)
(* A model of the umrsm state machine engine (src/src/sm.rs): the registry *)
(* StateMachine, the StateMachineRunner and its step algorithm, the        *)
(* Outcome protocol with its canonical carriers, and the type-erased       *)
(* entry check.  States are the trait's implementors: their handle is any  *)
(* function the State trait admits, so it is a nondeterministic choice     *)
(* over new instance fields, a new context and a returned outcome.         *)
(***************************************************************************)
EXTENDS Integers, Sequences, FiniteSets, TLC

VARIABLES
    states,     \* StateMachine.states: the registered state kinds (keys of the map)
    runner,     \* the caller's binding of a StateMachineRunner (moved-out when .some = FALSE)
    outcome,    \* the StepOutcome the last step returned, until the caller takes it apart
    ev,         \* what the last operation did: the calls it made, in order
    dirty,      \* the kinds whose instance left this run with non-default fields
    loop,       \* a run_to_completion call in progress: its twin verbose call and results
    tm,         \* the clock, and the TimedStateStruct fields of the active instance
    peer,       \* a second binding of a StateMachineRunner of the same registry
    count       \* a run's tally of State::init calls and Transition outcomes

vars == <<states, runner, outcome, ev, dirty, loop, tm, peer, count>>

-----------------------------------------------------------------------------
(* Bounds *)

\* context values are 0..MaxData
MaxData == 1
\* income values and instance fields are 0..MaxVal
MaxVal == 1

Datas == 0..MaxData
Vals == 0..MaxVal

-----------------------------------------------------------------------------
(* Identities, shapes and payloads *)

\* TypeId::of::<()>(): the completion sentinel, and the shape of a () payload
UnitTypeId == "()"

\* the state kinds of the engine's tests (Start, End, MissingState)
Kinds == {"Start", "End", "MissingState"}

\* the state kinds of the example program (main.rs: Start, Mid, Stop)
MainKinds == {"main::Start", "Mid", "Stop"}

\* the state kinds of the mission (standard_run.rs)
MissionKinds == {"standard_run::Start", "Submerge", "AlignGate", "ApproachGate"}

\* constants.rs; durations in seconds, depths in tenths of a metre, angles in
\* degrees
SUBMERGE_TIMEOUT == 15

SUBMERGE_HEAVE == 19

SUBMERGE_HEAVE_TOLERANCE == 1

ALIGN_GATE_TIMEOUT == 10

ALIGN_GATE_YAW == 100

ALIGN_GATE_YAW_TOLERANCE == 2

\* every TypeId an Outcome::state_type may answer
TypeIds == Kinds \cup {UnitTypeId}

\* TypeId::of::<<T as State>::Income>()
Income(T) ==
    CASE T = "Start" -> "usize"
      [] T = "End" -> "isize"
      [] T = "Mid" -> "i32"
      [] T = "Stop" -> "String"
      [] OTHER -> UnitTypeId

\* the shapes a Box<dyn Any> payload can have
Shapes == {"usize", "isize", UnitTypeId, "RangeFull", "BoxedOutcome"}

\* the values of one shape: () and .. have a single value
ValsOf(shape) == IF shape \in {"usize", "isize"} THEN Vals ELSE {0}

Payload(shape, val) == [shape |-> shape, val |-> val]

UnitPayload == Payload(UnitTypeId, 0)

Payloads == { Payload(s, v) : s \in Shapes \ {"BoxedOutcome"}, v \in Vals } \cap
            UNION { { Payload(s, v) : v \in ValsOf(s) } : s \in Shapes }

-----------------------------------------------------------------------------
(* State instances *)

\* State::name: the display name of an instance
StateName(inst) ==
    CASE inst.kind = "Start" -> "Start"
      [] inst.kind = "End" -> "End"
      [] inst.kind = "main::Start" -> "Start"
      [] inst.kind = "Mid" -> "Mid"
      [] inst.kind = "Stop" -> "Stop"
      [] inst.kind = "MayLoop" -> "MayLoopInner"
      [] inst.kind = "standard_run::Start" -> "standard_run::Start"
      [] inst.kind = "Submerge" -> "standard_run::SubmergeInner"
      [] inst.kind = "AlignGate" -> "standard_run::AlignGateInner"
      [] OTHER -> "umrsm_rs::sm::tests::MissingState"

\* a construction that is not the default one
StateHolder_new_nondefault(T) == [kind |-> T, field |-> MaxVal]

\* T::default(), boxed as dyn StateInternal
StateHolder_new(T) ==
    [kind |-> T,
     field |-> CASE T = "Stop" -> ""
                 [] T = "Submerge" -> [target_heave |-> SUBMERGE_HEAVE,
                                       tolerance |-> SUBMERGE_HEAVE_TOLERANCE]
                 [] T = "AlignGate" -> [target_yaw |-> ALIGN_GATE_YAW,
                                        tolerance |-> ALIGN_GATE_YAW_TOLERANCE]
                 [] OTHER -> 0]

\* State::init: the entry hook keeps what the previous state sent; the hooks
\* of the unit states and of the timed states leave the instance's fields
init(inst, previous) ==
    IF inst.kind \in MissionKinds \cup {"main::Start", "MayLoop"}
    THEN inst
    ELSE [inst EXCEPT !.field = previous.val]

\* a lookup that constructs whether or not the kind is registered
make_state_unchecked(machine, state) ==
    [some |-> TRUE, val |-> [kind |-> state, field |-> 0]]

\* a registration that replaces the registry's content
states_add_replacing(machine, T) == {T}

\* StateMachine::add_state: entry(TypeId::of::<T>()).or_insert(holder)
states_add(machine, T) == machine \cup {T}

\* StateMachine::make_state
make_state(machine, state) ==
    IF state \in machine
    THEN [some |-> TRUE, val |-> StateHolder_new(state)]
    ELSE [some |-> FALSE, val |-> [kind |-> "-", field |-> 0]]

\* an entry that checks the payload against the state's own type
enter_against_self(inst, meta) ==
    IF meta.shape = inst.kind
    THEN [ok |-> TRUE, state |-> init(inst, meta),
          inits |-> << [seen |-> inst, previous |-> meta] >>,
          expected |-> inst.kind, received |-> meta]
    ELSE [ok |-> FALSE, state |-> inst, inits |-> << >>,
          expected |-> inst.kind, received |-> meta]

\* an entry without the downcast: init runs on whatever arrives
enter_unchecked(inst, meta) ==
    [ok |-> TRUE, state |-> init(inst, meta),
     inits |-> << [seen |-> inst, previous |-> meta] >>,
     expected |-> Income(inst.kind), received |-> meta]

\* an entry that runs the hook before it looks at the payload's type
enter_checks_late(inst, meta) ==
    IF meta.shape = Income(inst.kind)
    THEN [ok |-> TRUE, state |-> init(inst, meta),
          inits |-> << [seen |-> inst, previous |-> meta] >>,
          expected |-> Income(inst.kind), received |-> meta]
    ELSE [ok |-> FALSE, state |-> inst,
          inits |-> << [seen |-> inst, previous |-> meta] >>,
          expected |-> Income(inst.kind), received |-> meta]

\* StateInternal::enter: downcast the payload to Income, then run init
enter(inst, meta) ==
    IF meta.shape = Income(inst.kind)
    THEN [ok |-> TRUE, state |-> init(inst, meta),
          inits |-> << [seen |-> inst, previous |-> meta] >>,
          expected |-> Income(inst.kind), received |-> meta]
    ELSE [ok |-> FALSE, state |-> inst, inits |-> << >>,
          expected |-> Income(inst.kind), received |-> meta]

-----------------------------------------------------------------------------
(* Outcomes *)

Names == {"Working", "WrongData"}

type_name(T) == "umrsm_rs::sm::tests::" \o T

\* a sentinel carrier left with the default name of Outcome::name
UnitOutcome_unnamed ==
    [carrier |-> "Unit", target |-> UnitTypeId, income |-> UnitPayload,
     label |-> "()", boxed |-> FALSE]

\* impl Outcome for ()
UnitOutcome ==
    [carrier |-> "Unit", target |-> UnitTypeId, income |-> UnitPayload,
     label |-> "(Complete)", boxed |-> FALSE]

\* OutcomeData::with_name
OutcomeData_with_name(T, v, n) ==
    [carrier |-> "OutcomeData", target |-> T, income |-> Payload(Income(T), v),
     label |-> n, boxed |-> FALSE]

\* OutcomeData::new
OutcomeData_new(T, v) == OutcomeData_with_name(T, v, type_name(T))

\* ContinueOutcome::<T>::default()
ContinueOutcome(T) ==
    [carrier |-> "ContinueOutcome", target |-> T, income |-> UnitPayload,
     label |-> "ContinueOutcome::<" \o type_name(T) \o ">", boxed |-> FALSE]

\* a state's own Outcome implementation (tests::StartTransition): any answers
CustomOutcome(t, p, n) ==
    [carrier |-> "Custom", target |-> t, income |-> p, label |-> n, boxed |-> FALSE]

\* IntoOutcome for T: Outcome applied to an already boxed outcome boxes it again
into_outcome_boxed(o) == [o EXCEPT !.boxed = TRUE]

PlainOutcomes ==
    {UnitOutcome}
    \cup { OutcomeData_with_name(T, v, n) :
             <<T, v, n>> \in { x \in Kinds \X Vals \X Names : x[2] \in ValsOf(Income(x[1])) } }
    \cup { OutcomeData_new(x[1], x[2]) :
             x \in { y \in Kinds \X Vals : y[2] \in ValsOf(Income(y[1])) } }
    \cup { ContinueOutcome(T) : T \in Kinds }
    \cup { CustomOutcome(t, p, n) : t \in TypeIds, p \in Payloads, n \in Names }

\* every Box<dyn Outcome> a StateInternal::handle can return
Outcomes == PlainOutcomes \cup { into_outcome_boxed(o) : o \in PlainOutcomes }

\* Outcome::state_type (through Outcome for BoxedOutcome when boxed)
state_type(o) == o.target

\* Outcome::name
name(o) == o.label

\* Outcome::data: a boxed outcome hands over the box itself
data(o) == IF o.boxed THEN Payload("BoxedOutcome", 0) ELSE o.income

-----------------------------------------------------------------------------
(* Runner and step outcomes *)

NoInst == [kind |-> "-", field |-> 0]

NoRunner == [some |-> FALSE, data |-> 0, state |-> NoInst, state_id |-> "-"]

Runner(d, st, id) == [some |-> TRUE, data |-> d, state |-> st, state_id |-> id]

NoPayload == Payload("-", 0)

NoOutcome ==
    [tag |-> "None", machine |-> NoRunner, data |-> 0, start |-> "-",
     transition |-> "-", end |-> "-", expected_type |-> "-",
     received_data |-> NoPayload]

Continue(m) == [NoOutcome EXCEPT !.tag = "Continue", !.machine = m]

Transition(m, s, t, e) ==
    [NoOutcome EXCEPT !.tag = "Transition", !.machine = m, !.start = s,
                      !.transition = t, !.end = e]

Complete(d, s, t) ==
    [NoOutcome EXCEPT !.tag = "Complete", !.data = d, !.start = s, !.transition = t]

StateNotFound(s, t, e) ==
    [NoOutcome EXCEPT !.tag = "StateNotFound", !.start = s, !.transition = t, !.end = e]

IncorrectTransition(s, t, e, x, r) ==
    [NoOutcome EXCEPT !.tag = "IncorrectTransition", !.start = s, !.transition = t,
                      !.end = e, !.expected_type = x, !.received_data = r]

\* main.rs: Mid leaves for Stop when the counter is over MidLimit
MidLimit == 10

\* main.rs: what Mid adds to the counter in the payload of its self-transition
MidOffset == 10000

Digit(n) ==
    CASE n = 0 -> "0" [] n = 1 -> "1" [] n = 2 -> "2" [] n = 3 -> "3" [] n = 4 -> "4"
      [] n = 5 -> "5" [] n = 6 -> "6" [] n = 7 -> "7" [] n = 8 -> "8" [] OTHER -> "9"

RECURSIVE to_string(_)
\* usize::to_string: the decimal digits
to_string(n) == IF n < 10 THEN Digit(n) ELSE to_string(n \div 10) \o Digit(n % 10)

\* a Start that seeds Mid with one
Start_handle_seed_one(inst, d) ==
    [state |-> inst, data |-> d,
     outcome |-> OutcomeData_with_name("Mid", 1, "StartTransition")]

\* main.rs Start::handle
Start_handle(inst, d) ==
    [state |-> inst, data |-> d,
     outcome |-> OutcomeData_with_name("Mid", 0, "StartTransition")]

\* a Mid that leaves one step early
Mid_handle_early(inst, d) ==
    IF d >= MidLimit
    THEN [state |-> inst, data |-> d,
          outcome |-> OutcomeData_with_name("Stop", to_string(d), "MidOutcome::End")]
    ELSE [state |-> inst, data |-> d + 1,
          outcome |-> OutcomeData_with_name("Mid", d + 1 + MidOffset,
                                            "MidOutcome::Continue")]

\* main.rs Mid::handle, with MidOutcome::into_outcome
Mid_handle(inst, d) ==
    IF d > MidLimit
    THEN [state |-> inst, data |-> d,
          outcome |-> OutcomeData_with_name("Stop", to_string(d), "MidOutcome::End")]
    ELSE [state |-> inst, data |-> d + 1,
          outcome |-> OutcomeData_with_name("Mid", d + 1 + MidOffset,
                                            "MidOutcome::Continue")]

\* main.rs Stop::handle
Stop_handle(inst, d) == [state |-> inst, data |-> d, outcome |-> UnitOutcome]

\* standard_run.rs Start::handle
StandardStart_handle(inst, d) ==
    [state |-> inst, data |-> d,
     outcome |-> OutcomeData_with_name("Submerge", 0, "Complete")]

\* State::handle: for the example program's states what their code does; for
\* the others what the trait admits: the instance keeps its kind, and its
\* fields, the context and the returned outcome are the implementor's choice
HandleResults(inst, d) ==
    CASE inst.kind = "main::Start" -> { Start_handle(inst, d) }
      [] inst.kind = "Mid" -> { Mid_handle(inst, d) }
      [] inst.kind = "Stop" -> { Stop_handle(inst, d) }
      [] inst.kind = "standard_run::Start" -> { StandardStart_handle(inst, d) }
      [] OTHER -> [state : { [inst EXCEPT !.field = f] : f \in Vals },
                   data : Datas, outcome : Outcomes]

NoHandle == [state |-> NoInst, data |-> 0, outcome |-> UnitOutcome]

\* the result of a step: the outcome, and the calls the step made
StepResult(out, made, extracted, e) ==
    [out |-> out, made |-> made, extracted |-> extracted,
     enters |-> e.n, inits |-> e.inits]

NoEnter == [n |-> 0, inits |-> << >>]

\* a self-transition test that also looks at the payload
is_self_transition_typed(self, o) ==
    state_type(o) = self.state_id /\ data(o).shape = Income(self.state_id)

\* step, line 266: the self-transition test
is_self_transition(self, o) == state_type(o) = self.state_id

\* a Continue that rebuilds the active instance
step_continue_rebuilt(self) ==
    StepResult(Continue([self EXCEPT !.state = [kind |-> self.state_id, field |-> 0]]),
               << >>, 0, NoEnter)

\* step, line 267: Continue hands back the runner as it is
step_continue(self) == StepResult(Continue(self), << >>, 0, NoEnter)

\* a Complete that hands back a default context
step_complete_default(self, start, transition) ==
    StepResult(Complete(0, start, transition), << >>, 0, NoEnter)

\* step, lines 273-277: Complete hands the context to the caller
step_complete(self, start, transition) ==
    StepResult(Complete(self.data, start, transition), << >>, 0, NoEnter)

\* a StateNotFound that has already taken the payload out of the outcome
step_not_found_extracted(self, start, transition) ==
    StepResult(StateNotFound(start, transition, self.state_id), << >>, 1, NoEnter)

\* a StateNotFound that hands the runner back
step_not_found_resumable(self, start, transition) ==
    StepResult([StateNotFound(start, transition, self.state_id) EXCEPT !.machine = self],
               << >>, 0, NoEnter)

\* step, lines 280-284
step_not_found(self, start, transition) ==
    StepResult(StateNotFound(start, transition, self.state_id), << >>, 0, NoEnter)

\* an entry whose hook gets at the context and resets it
step_enter_resets_context(self, state, o, start, transition) ==
    LET s3 == [self EXCEPT !.state = state]
        end == StateName(s3.state)
        r == enter(s3.state, data(o))
        e == [n |-> 1, inits |-> r.inits]
    IN IF r.ok
       THEN StepResult(Transition([s3 EXCEPT !.state = r.state, !.data = 0],
                                  start, transition, end),
                       << state.kind >>, 1, e)
       ELSE StepResult(IncorrectTransition(start, transition, end, r.expected, r.received),
                       << state.kind >>, 1, e)

\* an entry that forgets to swap the new instance in
step_enter_no_swap(self, state, o, start, transition) ==
    LET end == StateName(state)
        r == enter(state, data(o))
        e == [n |-> 1, inits |-> r.inits]
    IN IF r.ok
       THEN StepResult(Transition(self, start, transition, end), << state.kind >>, 1, e)
       ELSE StepResult(IncorrectTransition(start, transition, end, r.expected, r.received),
                       << state.kind >>, 1, e)

\* an entry whose hook is handed the context and seeds it with the payload
step_enter_seeds_context(self, state, o, start, transition) ==
    LET s3 == [self EXCEPT !.state = state]
        end == StateName(s3.state)
        r == enter(s3.state, data(o))
        e == [n |-> 1, inits |-> r.inits]
    IN IF r.ok
       THEN StepResult(Transition([s3 EXCEPT !.state = r.state, !.data = data(o).val],
                                  start, transition, end),
                       << state.kind >>, 1, e)
       ELSE StepResult(IncorrectTransition(start, transition, end, r.expected, r.received),
                       << state.kind >>, 1, e)

\* an entry that goes on to call the handle of the state it entered
step_enter_handles_entered(self, state, o, start, transition) ==
    LET s3 == [self EXCEPT !.state = state]
        end == StateName(s3.state)
        r == enter(s3.state, data(o))
        e == [n |-> 1, inits |-> r.inits]
        h2 == CHOOSE h \in HandleResults(r.state, s3.data) :
                 h.state # r.state \/ h.data # s3.data
    IN IF r.ok
       THEN StepResult(Transition([s3 EXCEPT !.state = h2.state, !.data = h2.data],
                                  start, transition, end),
                       << state.kind >>, 1, e)
       ELSE StepResult(IncorrectTransition(start, transition, end, r.expected, r.received),
                       << state.kind >>, 1, e)

\* an entry that, like new, expects the payload to fit
step_enter_expects(self, state, o, start, transition) ==
    LET s3 == [self EXCEPT !.state = state]
        end == StateName(s3.state)
        r == enter(s3.state, data(o))
        e == [n |-> 1, inits |-> r.inits]
    IN IF r.ok
       THEN StepResult(Transition([s3 EXCEPT !.state = r.state], start, transition, end),
                       << state.kind >>, 1, e)
       ELSE StepResult([NoOutcome EXCEPT !.tag = "Panic"], << state.kind >>, 1, e)

\* an entry that reads the start name once the new instance is swapped in
step_enter_start_after_swap(self, state, o, start, transition) ==
    LET s3 == [self EXCEPT !.state = state]
        end == StateName(s3.state)
        r == enter(s3.state, data(o))
        e == [n |-> 1, inits |-> r.inits]
    IN IF r.ok
       THEN StepResult(Transition([s3 EXCEPT !.state = r.state],
                                  StateName(s3.state), transition, end),
                       << state.kind >>, 1, e)
       ELSE StepResult(IncorrectTransition(StateName(s3.state), transition, end,
                                           r.expected, r.received),
                       << state.kind >>, 1, e)

\* an entry that enters the new instance a second time
step_enter_twice(self, state, o, start, transition) ==
    LET s3 == [self EXCEPT !.state = state]
        end == StateName(s3.state)
        r == enter(s3.state, data(o))
        e == [n |-> 2, inits |-> r.inits \o r.inits]
    IN IF r.ok
       THEN StepResult(Transition([s3 EXCEPT !.state = r.state], start, transition, end),
                       << state.kind >>, 1, e)
       ELSE StepResult(IncorrectTransition(start, transition, end, r.expected, r.received),
                       << state.kind >>, 1, e)

\* step, lines 286-302: swap the instance in, enter it, report
step_enter(self, state, o, start, transition) ==
    LET s3 == [self EXCEPT !.state = state]
        end == StateName(s3.state)
        r == enter(s3.state, data(o))
        e == [n |-> 1, inits |-> r.inits]
    IN IF r.ok
       THEN StepResult(Transition([s3 EXCEPT !.state = r.state], start, transition, end),
                       << state.kind >>, 1, e)
       ELSE StepResult(IncorrectTransition(start, transition, end, r.expected, r.received),
                       << state.kind >>, 1, e)

\* a step that type-checks the payload before it tests for a self-transition
step_checks_payload_first(self, machine, h) ==
    LET s1 == [self EXCEPT !.state = h.state, !.data = h.data]
        o == h.outcome
        start == StateName(s1.state)
        transition == name(o)
        s2 == [s1 EXCEPT !.state_id = state_type(o)]
        made == make_state(machine, s2.state_id)
    IN IF made.some /\ data(o).shape # Income(s2.state_id)
       THEN step_enter(s2, made.val, o, start, transition)
       ELSE IF is_self_transition(s1, o)
       THEN step_continue(s1)
       ELSE IF s2.state_id = UnitTypeId
       THEN step_complete(s2, start, transition)
       ELSE IF ~made.some
       THEN step_not_found(s2, start, transition)
       ELSE step_enter(s2, made.val, o, start, transition)

\* a step that looks the destination up before it tests for the sentinel
step_lookup_first(self, machine, h) ==
    LET s1 == [self EXCEPT !.state = h.state, !.data = h.data]
        o == h.outcome
    IN IF is_self_transition(s1, o)
       THEN step_continue(s1)
       ELSE LET start == StateName(s1.state)
                transition == name(o)
                s2 == [s1 EXCEPT !.state_id = state_type(o)]
                made == make_state(machine, s2.state_id)
            IN IF ~made.some
               THEN step_not_found(s2, start, transition)
               ELSE IF s2.state_id = UnitTypeId
                    THEN step_complete(s2, start, transition)
                    ELSE step_enter(s2, made.val, o, start, transition)

\* StateMachineRunner::step, with h what the active state's handle did
step(self, machine, h) ==
    LET s1 == [self EXCEPT !.state = h.state, !.data = h.data]
        o == h.outcome
    IN IF is_self_transition(s1, o)
       THEN step_continue(s1)
       ELSE LET start == StateName(s1.state)
                transition == name(o)
                s2 == [s1 EXCEPT !.state_id = state_type(o)]
            IN IF s2.state_id = UnitTypeId
               THEN step_complete(s2, start, transition)
               ELSE LET made == make_state(machine, s2.state_id)
                    IN IF ~made.some
                       THEN step_not_found(s2, start, transition)
                       ELSE step_enter(s2, made.val, o, start, transition)

\* a step that borrows: the caller's binding stays usable
borrowed_from(self) == self

\* step takes self by value: the caller's binding is moved out of
moved_from(self) == NoRunner

\* a construction that does not look the start state up
new_unchecked(machine, Start, d, start) ==
    LET r == enter(StateHolder_new(Start), Payload(Income(Start), start))
    IN [some |-> TRUE, runner |-> Runner(d, r.state, Start),
        made |-> << Start >>, enters |-> 1, inits |-> r.inits]

\* a construction that leaves the start state unentered
new_without_enter(machine, Start, d, start) ==
    LET made == make_state(machine, Start)
    IN IF ~made.some
       THEN [some |-> FALSE, runner |-> NoRunner, made |-> << >>,
             enters |-> 0, inits |-> << >>]
       ELSE [some |-> TRUE, runner |-> Runner(d, made.val, Start),
             made |-> << Start >>, enters |-> 0, inits |-> << >>]

\* StateMachineRunner::new
new(machine, Start, d, start) ==
    LET made == make_state(machine, Start)
        r == enter(made.val, Payload(Income(Start), start))
    IN IF ~made.some
       THEN [some |-> FALSE, runner |-> NoRunner, made |-> << >>,
             enters |-> 0, inits |-> << >>]
       ELSE [some |-> TRUE, runner |-> Runner(d, r.state, Start),
             made |-> << Start >>, enters |-> 1, inits |-> r.inits]

-----------------------------------------------------------------------------
(* Events *)

Event(op, arg, pre, h, made, extracted, enters, inits, ret) ==
    [op |-> op, arg |-> arg, pre |-> pre, h |-> h, made |-> made,
     extracted |-> extracted, enters |-> enters, inits |-> inits, ret |-> ret]

Quiet(op, arg, ret) == Event(op, arg, NoRunner, NoHandle, << >>, 0, 0, << >>, ret)

\* Option<D>: what run_to_completion returns
NoneData == [some |-> FALSE, val |-> 0]

SomeData(d) == [some |-> TRUE, val |-> d]

\* no run_to_completion call is in progress; last, vlast and printed are the
\* outcome and the output of the turn being matched
NoLoop ==
    [mode |-> "off", vmode |-> "off", verbose |-> NoRunner, last |-> "None",
     vlast |-> "None", result |-> NoneData, vresult |-> NoneData, printed |-> << >>]

\* a Complete that is turned into Err(None): the final context is lost
into_result_drops_data(value) ==
    IF value.tag \in {"Continue", "Transition"}
    THEN [ok |-> TRUE, machine |-> value.machine, err |-> NoneData]
    ELSE [ok |-> FALSE, machine |-> NoRunner, err |-> NoneData]

\* From<StepOutcome> for Result<StateMachineRunner, Option<D>>
into_result(value) ==
    CASE value.tag \in {"Continue", "Transition"} ->
            [ok |-> TRUE, machine |-> value.machine, err |-> NoneData]
      [] value.tag = "Complete" ->
            [ok |-> FALSE, machine |-> NoRunner, err |-> SomeData(value.data)]
      [] OTHER ->
            [ok |-> FALSE, machine |-> NoRunner, err |-> NoneData]

\* an is_notable that leaves transitions out
is_notable_ends_only(value) == value.tag \notin {"Continue", "Transition"}

\* StepOutcome::is_notable
is_notable(value) == value.tag # "Continue"

\* Display for StepOutcome
Display(value) ==
    CASE value.tag = "Continue" -> ""
      [] value.tag = "Transition" ->
            value.start \o " --[" \o value.transition \o "]--> " \o value.end
      [] value.tag = "Complete" ->
            value.start \o " --[" \o value.transition \o "]--> END"
      [] value.tag = "StateNotFound" ->
            value.start \o " --[" \o value.transition \o "]--> " \o value.end
                \o "? ABORT!" \o "Type " \o value.end
                \o " does not exist in the state machine"
      [] OTHER ->
            value.start \o " --[" \o value.transition \o "!]--> " \o value.end
                \o value.end \o " expected incoming data of type "
                \o value.expected_type \o " but received data of type "
                \o value.received_data.shape \o " from transition "
                \o value.transition

\* StepOutcome::print_if_notable: the lines it writes
print_if_notable(value) == IF is_notable(value) THEN << Display(value) >> ELSE << >>

\* one turn of the loop of run_to_completion: step, into, match
run_iteration(self, machine, h) ==
    LET r == step(self, machine, h)
        res == into_result(r.out)
    IN [r |-> r, returned |-> ~res.ok, machine |-> res.machine, value |-> res.err,
        printed |-> << >>]

\* a verbose turn that returns once it has printed something
run_iteration_verbose_stops(self, machine, h) ==
    LET r == step(self, machine, h)
        res == into_result(r.out)
        said == print_if_notable(r.out)
    IN [r |-> r, returned |-> (~res.ok \/ said # << >>),
        machine |-> IF said # << >> THEN NoRunner ELSE res.machine,
        value |-> res.err, printed |-> said]

\* one turn of the loop of run_to_completion_verbose: step, print, into, match
run_iteration_verbose(self, machine, h) ==
    LET r == step(self, machine, h)
        said == print_if_notable(r.out)
        res == into_result(r.out)
    IN [r |-> r, returned |-> ~res.ok, machine |-> res.machine, value |-> res.err,
        printed |-> said]

-----------------------------------------------------------------------------
(* sm_ext.rs: the timed-state decorator *)

\* the last reading of the clock (Instant::now) a run gets to
MaxNow == 16

\* the longest timeout an inner init asks for
MaxTimeout == 2

Timeouts == 0..MaxTimeout

\* the states that are a TimedStateStruct<D, S>
TimedKinds == {"MayLoop", "Submerge", "AlignGate"}

\* the decorator's own fields, the clock, and what the last step of the
\* decorator did: the inner handlers it called, what the one called last
\* returned, the time since entry and the timeout it compared, and how many
\* steps since the entry ran handle_once_timeout (counted up to two); asked
\* is what the inner init returned at the entry
NoTimed ==
    [now |-> 0, timeout |-> 0, start_time |-> 0, called |-> << >>,
     inner |-> NoHandle, elapsed |-> 0, limit |-> 0, fired |-> 0,
     asked |-> NoneData]

\* Default for TimedStateStruct: Duration::default() and the instant of construction
TimedStateStruct_default(now) == [timeout |-> 0, start_time |-> now]

\* an entry that keeps the default timeout whatever the inner init returns
TimedStateStruct_init_ignores_override(self, now, ret) ==
    [self EXCEPT !.start_time = now]

\* State::init of TimedStateStruct; ret is what the inner init returned
TimedStateStruct_init(self, now, ret) ==
    [self EXCEPT !.start_time = now,
                 !.timeout = IF ret.some THEN ret.val ELSE @]

\* a decorator that starts the timeout again each time it has run out
TimedStateStruct_handle_restarts(self, now, poll, once) ==
    IF now - self.start_time > self.timeout
    THEN [self |-> [self EXCEPT !.start_time = now],
          called |-> << "handle_once_timeout" >>, inner |-> once, ret |-> once]
    ELSE [self |-> self,
          called |-> << "handle_if_not_timeout" >>, inner |-> poll, ret |-> poll]

\* a decorator that still polls once the timeout has run out
TimedStateStruct_handle_both(self, now, poll, once) ==
    IF now - self.start_time > self.timeout
    THEN [self |-> self,
          called |-> << "handle_if_not_timeout", "handle_once_timeout" >>,
          inner |-> once, ret |-> once]
    ELSE [self |-> self,
          called |-> << "handle_if_not_timeout" >>, inner |-> poll, ret |-> poll]

\* State::handle of TimedStateStruct; poll and once are what the inner
\* handle_if_not_timeout and handle_once_timeout return when called
TimedStateStruct_handle(self, now, poll, once) ==
    IF now - self.start_time > self.timeout
    THEN [self |-> self,
          called |-> << "handle_once_timeout" >>, inner |-> once, ret |-> once]
    ELSE [self |-> self,
          called |-> << "handle_if_not_timeout" >>, inner |-> poll, ret |-> poll]

\* what the inner handlers of a TimedState may return
InnerOutcomes ==
    { ContinueOutcome("MayLoop"), UnitOutcome,
      OutcomeData_with_name("MayLoop", 0, "Working"),
      OutcomeData_with_name("End", 0, "WrongData") }

\* the deepest pose the simulation is followed to, in tenths of a metre
MaxDepth == 21

\* the poses of the vehicle: at the surface, and around the target
Depths == {0} \cup ((SUBMERGE_HEAVE - 2)..MaxDepth)

\* standard_run.rs DATA: the heave axis of the vehicle, at rest at the surface
DATA == [pose |-> 0, target |-> << "Twist", 0 >>]

Abs(x) == IF x < 0 THEN 0 - x ELSE x

\* standard_run.rs SubmergeOutcome::into_outcome
SubmergeOutcome_into_outcome(o) ==
    IF o \in {"Reached", "Timeout"}
    THEN OutcomeData_with_name("AlignGate", 0, o)
    ELSE OutcomeData_with_name("Submerge", 0, o)

\* standard_run.rs SubmergeInner::handle_if_not_timeout
Submerge_handle_if_not_timeout(inst, d) ==
    IF Abs(d.pose - inst.field.target_heave) < inst.field.tolerance
    THEN [state |-> inst, data |-> d,
          outcome |-> SubmergeOutcome_into_outcome("Reached")]
    ELSE [state |-> inst,
          data |-> [d EXCEPT !.target = << "Pose", inst.field.target_heave >>],
          outcome |-> SubmergeOutcome_into_outcome("Unreached")]

\* standard_run.rs SubmergeInner::handle_once_timeout
Submerge_handle_once_timeout(inst, d) ==
    [state |-> inst, data |-> d, outcome |-> SubmergeOutcome_into_outcome("Timeout")]

\* TimedState::init of the inner state: None, or the timeout of this entry
TimedState_init(kind) ==
    CASE kind = "Submerge" -> { SomeData(SUBMERGE_TIMEOUT) }
      [] kind = "AlignGate" -> { SomeData(ALIGN_GATE_TIMEOUT) }
      [] kind = "MayLoop" -> {NoneData} \cup { SomeData(t) : t \in Timeouts }
      [] OTHER -> {NoneData}

\* TimedState::handle_if_not_timeout of the inner state
handle_if_not_timeout(inst, d) ==
    IF inst.kind = "Submerge"
    THEN { Submerge_handle_if_not_timeout(inst, d) }
    ELSE [state : { [inst EXCEPT !.field = f] : f \in Vals }, data : Datas,
          outcome : InnerOutcomes]

\* TimedState::handle_once_timeout of the inner state
handle_once_timeout(inst, d) ==
    IF inst.kind = "Submerge"
    THEN { Submerge_handle_once_timeout(inst, d) }
    ELSE [state : { [inst EXCEPT !.field = f] : f \in Vals }, data : Datas,
          outcome : InnerOutcomes]

\* StateInternal::handle of the active instance: through the decorator for a
\* timed state
Handled(t, inst, d) ==
    IF inst.kind \in TimedKinds
    THEN { TimedStateStruct_handle([timeout |-> t.timeout, start_time |-> t.start_time],
                                   t.now, poll, once) :
             poll \in handle_if_not_timeout(inst, d),
             once \in handle_once_timeout(inst, d) }
    ELSE { [self |-> [timeout |-> t.timeout, start_time |-> t.start_time],
            called |-> << >>, inner |-> h, ret |-> h] :
             h \in HandleResults(inst, d) }

\* the decorator's fields after an operation: those of a fresh instance that
\* init was called on when a timed state was entered
Entered(self, now, inits, ret) ==
    IF inits # << >> /\ inits[1].seen.kind \in TimedKinds
    THEN TimedStateStruct_init(TimedStateStruct_default(now), now, ret)
    ELSE self

\* TimedStateStruct::init: the value of self.state.init(previous) at an entry
\* of a timed state, and the one of the entry before otherwise
Asked(prev, inits, ret) ==
    IF inits # << >> /\ inits[1].seen.kind \in TimedKinds THEN ret ELSE prev

\* a registry that a runner does not borrow
Idle_unborrowed == TRUE

\* no runner and no outcome borrows the registry
Idle == ~runner.some /\ outcome = NoOutcome /\ ~peer.some

\* a run's tally: the calls of State::init and the Transition outcomes so far
NoCount == [hooks |-> 0, transitions |-> 0]

-----------------------------------------------------------------------------
(* Operations *)

Init ==
    /\ states = {}
    /\ runner = NoRunner
    /\ outcome = NoOutcome
    /\ ev = Quiet("init", "-", FALSE)
    /\ dirty = {}
    /\ loop = NoLoop
    /\ tm = NoTimed
    /\ peer = NoRunner
    /\ count = NoCount

\* the kinds whose instance has left the run with non-default fields, after a step
dirty_after(h, out) ==
    IF out.tag = "Transition" /\ h.state # StateHolder_new(h.state.kind)
    THEN dirty \cup {h.state.kind}
    ELSE dirty

\* StateMachine::add_state::<T>
add_state(T) ==
    /\ Idle
    /\ states' = states_add(states, T)
    /\ ev' = Quiet("add_state", T, T \in states)
    /\ UNCHANGED <<runner, outcome, dirty, loop, tm, peer, count>>

\* a removal that only looks the kind up
remove_state_peek(T) ==
    /\ Idle
    /\ states' = states
    /\ ev' = Quiet("remove_state", T, T \in states)
    /\ UNCHANGED <<runner, outcome, dirty, loop, tm, peer, count>>

\* StateMachine::remove_state::<T>
remove_state(T) ==
    /\ Idle
    /\ states' = states \ {T}
    /\ ev' = Quiet("remove_state", T, T \in states)
    /\ UNCHANGED <<runner, outcome, dirty, loop, tm, peer, count>>

\* StateMachine::runner::<Start>(initial_data, start_transition_data)
NewRunner(Start, d, v) ==
    /\ Idle
    /\ LET r == new(states, Start, d, v)
       IN /\ runner' = r.runner
          /\ ev' = Event("new", Start, NoRunner, NoHandle, r.made, 0, r.enters,
                         r.inits, r.some)
    /\ dirty' = {}
    /\ UNCHANGED <<states, outcome, loop, tm, peer, count>>

\* runner.step()
Step ==
    /\ runner.some
    /\ outcome = NoOutcome
    /\ \E h \in HandleResults(runner.state, runner.data) :
          LET r == step(runner, states, h)
          IN /\ outcome' = r.out
             /\ runner' = moved_from(runner)
             /\ ev' = Event("step", "-", runner, h, r.made, r.extracted, r.enters,
                            r.inits, r.out.machine.some)
             /\ dirty' = dirty_after(h, r.out)
    /\ UNCHANGED <<states, loop, tm, peer, count>>

\* the caller binds the runner a Continue or Transition hands back
Rebind ==
    /\ outcome.machine.some
    /\ runner' = outcome.machine
    /\ outcome' = NoOutcome
    /\ ev' = Quiet("rebind", "-", TRUE)
    /\ UNCHANGED <<states, dirty, loop, tm, peer, count>>

\* the driving loop writes the runner's public data field between steps
Drive(d) ==
    /\ runner.some
    /\ outcome = NoOutcome
    /\ d # runner.data
    /\ runner' = [runner EXCEPT !.data = d]
    /\ ev' = Quiet("drive", "-", TRUE)
    /\ UNCHANGED <<states, outcome, dirty, loop, tm, peer, count>>

\* the caller drops whatever it holds of the run
Discard ==
    /\ ~Idle
    /\ runner' = NoRunner
    /\ outcome' = NoOutcome
    /\ ev' = Quiet("discard", "-", TRUE)
    /\ dirty' = {}
    /\ UNCHANGED <<states, loop, tm, peer, count>>

\* machine.runner::<Start>(d, v), then run_to_completion on it and, for
\* comparison, run_to_completion_verbose on a runner made the same way
RunStart(Start, d, v) ==
    /\ Idle
    /\ LET r == new(states, Start, d, v)
       IN /\ runner' = r.runner
          /\ ev' = Event("new", Start, NoRunner, NoHandle, r.made, 0, r.enters,
                         r.inits, r.some)
          /\ loop' = IF r.some
                     THEN [NoLoop EXCEPT !.mode = "run", !.vmode = "run",
                                         !.verbose = r.runner]
                     ELSE NoLoop
    /\ dirty' = {}
    /\ UNCHANGED <<states, outcome, tm, peer, count>>

\* one turn of both loops, up to the match on the step's result; the states
\* are deterministic, so on the same instance and context the two handle
\* calls do the same
RunIter ==
    /\ loop.mode = "run"
    /\ loop.vmode = "run"
    /\ runner.some
    /\ outcome = NoOutcome
    /\ \E h \in HandleResults(runner.state, runner.data) :
       \E hv \in (IF loop.verbose.state = runner.state /\ loop.verbose.data = runner.data
                  THEN {h}
                  ELSE HandleResults(loop.verbose.state, loop.verbose.data)) :
          LET it == run_iteration(runner, states, h)
              iv == run_iteration_verbose(loop.verbose, states, hv)
          IN /\ runner' = moved_from(runner)
             /\ outcome' = it.r.out
             /\ loop' = [mode |-> IF it.returned THEN "done" ELSE "run",
                         vmode |-> IF iv.returned THEN "done" ELSE "run",
                         verbose |-> iv.machine,
                         last |-> it.r.out.tag, vlast |-> iv.r.out.tag,
                         result |-> it.value, vresult |-> iv.value,
                         printed |-> iv.printed]
             /\ ev' = Event("iter", "-", runner, h, it.r.made, it.r.extracted,
                            it.r.enters, it.r.inits, ~it.returned)
             /\ dirty' = dirty_after(h, it.r.out)
    /\ UNCHANGED <<states, tm, peer, count>>

\* the match of the loop: Ok(machine) is bound to self for the next turn,
\* Err(data) is returned to the caller
RunMatch ==
    /\ loop.mode # "off"
    /\ outcome # NoOutcome
    /\ runner' = into_result(outcome).machine
    /\ outcome' = NoOutcome
    /\ ev' = Quiet("match", "-", into_result(outcome).ok)
    /\ loop' = IF into_result(outcome).ok
               THEN [loop EXCEPT !.last = "None", !.vlast = "None", !.printed = << >>]
               ELSE loop
    /\ UNCHANGED <<states, dirty, tm, peer, count>>

Next ==
    \/ \E T \in Kinds : add_state(T)
    \/ \E T \in Kinds : remove_state(T)
    \/ \E T \in Kinds, d \in Datas, v \in Vals :
          v \in ValsOf(Income(T)) /\ NewRunner(T, d, v)
    \/ Step
    \/ Rebind
    \/ \E d \in Datas : Drive(d)
    \/ Discard

Spec == Init /\ [][Next]_vars

\* the registry is populated, then runs are made with run_to_completion
NextRun ==
    \/ \E T \in Kinds : add_state(T)
    \/ \E T \in Kinds : remove_state(T)
    \/ \E T \in Kinds, d \in Datas, v \in Vals :
          v \in ValsOf(Income(T)) /\ RunStart(T, d, v)
    \/ RunIter
    \/ RunMatch

SpecRun == Init /\ [][NextRun]_vars

\* main.rs: Start, Mid and Stop are registered, then run_to_completion from
\* Start with context 0; here the registry may also lack some of them
NextA ==
    \/ \E T \in MainKinds : add_state(T)
    \/ \E T \in MainKinds : remove_state(T)
    \/ RunStart("main::Start", 0, 0)
    \/ RunIter
    \/ RunMatch

\* the loop of run_to_completion keeps turning until it returns
SpecA == Init /\ [][NextA]_vars /\ WF_vars(RunIter) /\ WF_vars(RunMatch)

\* StateMachine::runner::<Start>, the start state possibly timed
TimedNew(Start, d) ==
    /\ Idle
    /\ \E ret \in TimedState_init(Start) :
          LET r == new(states, Start, d, 0)
              self == Entered([timeout |-> tm.timeout, start_time |-> tm.start_time],
                              tm.now, r.inits, ret)
          IN /\ runner' = r.runner
             /\ ev' = Event("new", Start, NoRunner, NoHandle, r.made, 0, r.enters,
                            r.inits, r.some)
             /\ tm' = [tm EXCEPT !.timeout = self.timeout,
                                 !.start_time = self.start_time,
                                 !.called = << >>, !.inner = NoHandle,
                                 !.elapsed = 0, !.limit = 0, !.fired = 0,
                                 !.asked = Asked(@, r.inits, ret)]
    /\ dirty' = {}
    /\ UNCHANGED <<states, outcome, loop, peer, count>>

\* StateMachineRunner::step, the active state possibly timed
TimedStep ==
    /\ runner.some
    /\ outcome = NoOutcome
    /\ \E t \in Handled(tm, runner.state, runner.data) :
       \E ret \in TimedState_init(state_type(t.ret.outcome)) :
          LET r == step(runner, states, t.ret)
              self == Entered(t.self, tm.now, r.inits, ret)
          IN /\ outcome' = r.out
             /\ runner' = moved_from(runner)
             /\ ev' = Event("step", "-", runner, t.ret, r.made, r.extracted,
                            r.enters, r.inits, r.out.machine.some)
             /\ dirty' = dirty_after(t.ret, r.out)
             /\ tm' = [tm EXCEPT !.timeout = self.timeout,
                                 !.start_time = self.start_time,
                                 !.called = t.called, !.inner = t.inner,
                                 !.elapsed = tm.now - tm.start_time,
                                 !.limit = tm.timeout,
                                 !.asked = Asked(@, r.inits, ret),
                                 !.fired =
                                    IF r.inits # << >> THEN 0
                                    ELSE IF /\ @ < 2
                                            /\ \E i \in DOMAIN t.called :
                                                  t.called[i] = "handle_once_timeout"
                                    THEN @ + 1 ELSE @]
    /\ UNCHANGED <<states, loop, peer, count>>

\* Instant::now is monotonic: time passes between the calls
Tick ==
    /\ tm.now < MaxNow
    /\ tm' = [tm EXCEPT !.now = @ + 1]
    /\ UNCHANGED <<states, runner, outcome, ev, dirty, loop, peer, count>>

\* the caller binds the runner a step handed back
TimedRebind ==
    /\ outcome.machine.some
    /\ runner' = outcome.machine
    /\ outcome' = NoOutcome
    /\ ev' = Quiet("rebind", "-", TRUE)
    /\ tm' = [tm EXCEPT !.called = << >>, !.inner = NoHandle, !.elapsed = 0,
                        !.limit = 0]
    /\ UNCHANGED <<states, dirty, loop, peer, count>>

\* the caller drops the runner or the outcome, and the instance with it
TimedDiscard ==
    /\ ~Idle
    /\ runner' = NoRunner
    /\ outcome' = NoOutcome
    /\ ev' = Quiet("discard", "-", TRUE)
    /\ dirty' = {}
    /\ tm' = [NoTimed EXCEPT !.now = tm.now]
    /\ UNCHANGED <<states, loop, peer, count>>

NextTimed ==
    \/ add_state("MayLoop")
    \/ remove_state("MayLoop")
    \/ \E d \in Datas : TimedNew("MayLoop", d)
    \/ TimedStep
    \/ TimedRebind
    \/ Tick
    \/ TimedDiscard

SpecTimed == Init /\ [][NextTimed]_vars

\* standard_run.rs run: runner.step_debug(); the run is followed up to the
\* entry of AlignGate
MissionStep ==
    /\ runner.state.kind # "AlignGate"
    /\ TimedStep

\* standard_run.rs run: runner.data.sub.step moves the vehicle between steps
MissionDrive(p) ==
    /\ runner.some
    /\ Drive([runner.data EXCEPT !.pose = p])

\* standard_run.rs run: the states are registered, a runner starts from Start
\* with DATA, and the loop steps it, moves the vehicle and sleeps
NextB ==
    \/ \E T \in MissionKinds : add_state(T)
    \/ TimedNew("standard_run::Start", DATA)
    \/ MissionStep
    \/ TimedRebind
    \/ \E p \in Depths : MissionDrive(p)
    \/ Tick
    \/ TimedDiscard

SpecB == Init /\ [][NextB]_vars

\* the bound on the Transition outcomes of a tallied run
MaxTransitions == 3

\* machine.runner::<Start>(d, v) at the start of a tallied run
CountNew(Start, d, v) ==
    /\ Idle
    /\ LET r == new(states, Start, d, v)
       IN /\ runner' = r.runner
          /\ ev' = Quiet("new", Start, r.some)
          /\ count' = [hooks |-> Len(r.inits), transitions |-> 0]
    /\ UNCHANGED <<states, outcome, dirty, loop, tm, peer>>

\* runner.step() in a caller's loop that binds the runner handed back and
\* drops the outcome
CountStep ==
    /\ runner.some
    /\ outcome = NoOutcome
    /\ count.transitions < MaxTransitions
    /\ \E h \in HandleResults(runner.state, runner.data) :
          LET r == step(runner, states, h)
          IN /\ runner' = r.out.machine
             /\ ev' = Quiet("step", r.out.tag, r.out.machine.some)
             /\ count' = [hooks |-> count.hooks + Len(r.inits),
                          transitions |-> count.transitions +
                             IF r.out.tag = "Transition" THEN 1 ELSE 0]
    /\ UNCHANGED <<states, outcome, dirty, loop, tm, peer>>

\* the caller drops the runner of a tallied run
CountDiscard ==
    /\ runner.some
    /\ runner' = NoRunner
    /\ ev' = Quiet("discard", "-", TRUE)
    /\ UNCHANGED <<states, outcome, dirty, loop, tm, peer, count>>

\* runs whose entry hooks and Transition outcomes are tallied
NextCount ==
    \/ \E T \in Kinds : add_state(T)
    \/ \E T \in Kinds : remove_state(T)
    \/ \E T \in Kinds, d \in Datas, v \in Vals :
          v \in ValsOf(Income(T)) /\ CountNew(T, d, v)
    \/ CountStep
    \/ CountDiscard

SpecCount == Init /\ [][NextCount]_vars

\* the two bindings a caller holds runners of one registry in
Slots == {"runner", "peer"}

Slot(who) == IF who = "peer" THEN peer ELSE runner

\* a second runner that shares the context of the first
PairStep_shared_context(who) ==
    /\ Slot(who).some
    /\ \E h \in HandleResults(Slot(who).state, Slot(who).data) :
          LET r == step(Slot(who), states, h)
              other == IF who = "peer" THEN runner ELSE peer
              shared == IF other.some /\ r.out.machine.some
                        THEN [other EXCEPT !.data = r.out.machine.data]
                        ELSE other
          IN /\ outcome' = r.out
             /\ runner' = IF who = "runner" THEN r.out.machine ELSE shared
             /\ peer' = IF who = "peer" THEN r.out.machine ELSE shared
             /\ ev' = Quiet("step", who, r.out.machine.some)
    /\ UNCHANGED <<states, dirty, loop, tm, count>>

\* machine.runner::<Start>(d, v) bound to one of the two bindings
PairNew(who, Start, d, v) ==
    /\ ~Slot(who).some
    /\ outcome = NoOutcome
    /\ LET r == new(states, Start, d, v)
       IN /\ runner' = IF who = "runner" THEN r.runner ELSE runner
          /\ peer' = IF who = "peer" THEN r.runner ELSE peer
          /\ ev' = Quiet("new", who, r.some)
    /\ UNCHANGED <<states, outcome, dirty, loop, tm, count>>

\* step of the runner in one binding; the caller's match binds the runner
\* the outcome hands back, and the outcome is kept until the next step
PairStep(who) ==
    /\ Slot(who).some
    /\ \E h \in HandleResults(Slot(who).state, Slot(who).data) :
          LET r == step(Slot(who), states, h)
          IN /\ outcome' = r.out
             /\ runner' = IF who = "runner" THEN r.out.machine ELSE runner
             /\ peer' = IF who = "peer" THEN r.out.machine ELSE peer
             /\ ev' = Quiet("step", who, r.out.machine.some)
    /\ UNCHANGED <<states, dirty, loop, tm, count>>

\* the caller drops the runner in one binding, and the last outcome
PairDrop(who) ==
    /\ Slot(who).some \/ outcome # NoOutcome
    /\ runner' = IF who = "runner" THEN NoRunner ELSE runner
    /\ peer' = IF who = "peer" THEN NoRunner ELSE peer
    /\ outcome' = NoOutcome
    /\ ev' = Quiet("discard", who, TRUE)
    /\ UNCHANGED <<states, dirty, loop, tm, count>>

\* two runners of one registry of main.rs states, each started from Start
\* with a context of its own, stepped in any order
NextPair ==
    \/ \E T \in MainKinds : add_state(T)
    \/ \E T \in MainKinds : remove_state(T)
    \/ \E who \in Slots, d \in Datas : PairNew(who, "main::Start", d, 0)
    \/ \E who \in Slots : PairStep(who)
    \/ \E who \in Slots : PairDrop(who)

SpecPair == Init /\ [][NextPair]_vars

-----------------------------------------------------------------------------
(* Properties of step *)

\* the transition the stepped state's handle returned
Returned == ev.h.outcome

\* the destination identity of that transition
Dest == state_type(Returned)

Stepped == ev.op = "step"

SelfStep == Stepped /\ Dest = ev.pre.state_id

\* a step towards a registered state other than the active one and the sentinel
EnteringStep ==
    Stepped /\ Dest # ev.pre.state_id /\ Dest # UnitTypeId /\ Dest \in states

\* C1: a step whose transition names the active identity returns Continue,
\* runs no entry hook and never extracts or type-checks the payload, also
\* when the payload does not have the state's income shape.
C1_SelfTransitionIsFree ==
    SelfStep =>
        /\ outcome.tag = "Continue"
        /\ ev.enters = 0
        /\ ev.inits = << >>
        /\ ev.extracted = 0
        /\ ev.made = << >>

C1_Witness ==
    /\ SelfStep
    /\ data(Returned).shape # Income(ev.pre.state_id)
    /\ outcome.tag = "Continue"

\* C2: the runner inside Continue has the instance and the context as the
\* handle call left them and the identity it had before the step.
C2_ContinueKeepsRunner ==
    (Stepped /\ outcome.tag = "Continue") =>
        /\ outcome.machine.some
        /\ outcome.machine.state = ev.h.state
        /\ outcome.machine.data = ev.h.data
        /\ outcome.machine.state_id = ev.pre.state_id

C2_Witness ==
    /\ Stepped
    /\ outcome.tag = "Continue"
    /\ ev.h.state # ev.pre.state
    /\ ev.h.data # ev.pre.data
    /\ outcome.machine.state.field # 0

\* C3: a step towards a registered state other than the active one and the
\* sentinel, with a payload of that state's income shape, returns
\* Transition: one fresh instance of the destination is constructed, its
\* entry hook runs once on it with that payload, and the returned runner is
\* in the destination.
C3_WellShapedEntryTransitions ==
    (EnteringStep /\ data(Returned).shape = Income(Dest)) =>
        /\ outcome.tag = "Transition"
        /\ ev.made = << Dest >>
        /\ ev.enters = 1
        /\ ev.inits = << [seen |-> [kind |-> Dest, field |-> 0],
                          previous |-> data(Returned)] >>
        /\ outcome.machine.some
        /\ outcome.machine.state_id = Dest
        /\ outcome.machine.state = [kind |-> Dest, field |-> data(Returned).val]

C3_Witness ==
    /\ EnteringStep
    /\ data(Returned).shape = Income(Dest)
    /\ data(Returned).val # 0
    /\ outcome.tag = "Transition"

\* C4: a step towards a registered state other than the active one and the
\* sentinel, with a payload of another shape, returns IncorrectTransition
\* with the destination's income shape as expected type and the supplied
\* payload as received data.
C4_IllShapedEntryIsReported ==
    (EnteringStep /\ data(Returned).shape # Income(Dest)) =>
        /\ outcome.tag = "IncorrectTransition"
        /\ outcome.expected_type = Income(Dest)
        /\ outcome.received_data = data(Returned)
        /\ ~outcome.machine.some

C4_Witness ==
    /\ EnteringStep
    /\ data(Returned).shape # Income(Dest)
    /\ data(Returned).val # 0
    /\ outcome.tag = "IncorrectTransition"

\* a step towards an identity that is not active, not the sentinel and not registered
UnresolvedStep ==
    Stepped /\ Dest # ev.pre.state_id /\ Dest # UnitTypeId /\ Dest \notin states

\* C5: a step towards an unregistered identity returns StateNotFound on
\* that step, with the source state's display name, the transition's name
\* and the unresolved identity.
C5_UnregisteredIsNotFound ==
    UnresolvedStep =>
        /\ outcome.tag = "StateNotFound"
        /\ outcome.start = StateName(ev.h.state)
        /\ outcome.transition = name(Returned)
        /\ outcome.end = Dest
        /\ ~outcome.machine.some

C5_Witness ==
    /\ UnresolvedStep
    /\ outcome.tag = "StateNotFound"
    /\ states # {}

\* C6: a step that ends in StateNotFound constructs no instance, does not
\* extract the payload and runs no entry hook.
C6_NotFoundTouchesNothing ==
    (Stepped /\ outcome.tag = "StateNotFound") =>
        /\ ev.made = << >>
        /\ ev.extracted = 0
        /\ ev.enters = 0
        /\ ev.inits = << >>

C6_Witness ==
    /\ Stepped
    /\ outcome.tag = "StateNotFound"
    /\ data(Returned).shape = Income(Dest)

\* C7: a step towards the sentinel returns Complete with the context as
\* the handle call left it, the active state's display name and the
\* transition's name.
C7_CompleteReturnsContext ==
    (Stepped /\ Dest = UnitTypeId) =>
        /\ outcome.tag = "Complete"
        /\ outcome.data = ev.h.data
        /\ outcome.start = StateName(ev.h.state)
        /\ outcome.transition = name(Returned)
        /\ ~outcome.machine.some

C7_Witness ==
    /\ Stepped
    /\ Dest = UnitTypeId
    /\ outcome.tag = "Complete"
    /\ ev.h.data # ev.pre.data
    /\ outcome.data # 0

\* the runner values a caller can hold
HeldRunners == { r \in {runner, outcome.machine} : r.some }

\* C8: every runner a caller can hold has one active instance, of the kind
\* the runner records as its identity.
C8_IdentityMatchesInstance ==
    \A r \in HeldRunners : r.state_id \in Kinds /\ r.state.kind = r.state_id

C8_Witness ==
    /\ Stepped
    /\ outcome.tag = "Transition"
    /\ outcome.machine.state_id # ev.pre.state_id
    /\ outcome.machine.state.kind = outcome.machine.state_id

\* C9: whenever an entry hook runs, at construction or on a transition, the
\* instance it runs on has the default fields of its kind.
C9_EntryStartsFromDefault ==
    \A i \in 1..Len(ev.inits) :
        /\ ev.inits[i].seen.field = 0
        /\ ev.made = << ev.inits[i].seen.kind >>

\* re-entry into a kind whose earlier instance left the run with other fields
C9_Witness ==
    /\ Stepped
    /\ outcome.tag = "Transition"
    /\ outcome.machine.state_id \in dirty
    /\ Len(ev.inits) = 1
    /\ ev.inits[1].seen = [kind |-> outcome.machine.state_id, field |-> 0]

\* C10: a step leaves the stepped binding moved-out, so the run never has
\* two steppable runners: the only one is what Continue or Transition holds.
C10_StepConsumesRunner ==
    /\ Stepped => ~runner.some
    /\ ~(runner.some /\ outcome.machine.some)
    /\ outcome.tag \in {"Complete", "StateNotFound", "IncorrectTransition"} =>
           HeldRunners = {}

C10_Witness ==
    /\ Stepped
    /\ ~runner.some
    /\ outcome.tag = "Transition"
    /\ HeldRunners = {outcome.machine}

-----------------------------------------------------------------------------
(* Properties of the context and the registry *)

\* a run holds a context: in a runner, or in the Complete that ended it
HasCtx == runner.some \/ outcome.machine.some \/ outcome.tag = "Complete"

Ctx ==
    IF runner.some THEN runner.data
    ELSE IF outcome.machine.some THEN outcome.machine.data
    ELSE outcome.data

C14_RegistrationIdempotentUnordered ==
    /\ [](\A T1 \in Kinds, T2 \in Kinds :
            states_add(states_add(states, T1), T2) =
                states_add(states_add(states, T2), T1))
    /\ [][ev'.op = "add_state" =>
            /\ states' = states \cup {ev'.arg}
            /\ (ev'.arg \in states => states' = states)]_vars

C14_Witness ==
    /\ ev.op = "add_state"
    /\ ev.ret
    /\ Cardinality(states) >= 2

\* C15: creating a runner for an unregistered start state returns None
\* without constructing or entering anything; for a registered start state
\* it returns a runner in that state.
C15_RunnerNeedsRegisteredStart ==
    ev.op = "new" =>
        IF ev.arg \in states
        THEN /\ ev.ret
             /\ runner.some
             /\ runner.state_id = ev.arg
             /\ ev.made = << ev.arg >>
             /\ ev.enters = 1
        ELSE /\ ~ev.ret
             /\ ~runner.some
             /\ ev.made = << >>
             /\ ev.enters = 0
             /\ ev.inits = << >>

C15_Witness ==
    /\ ev.op = "new"
    /\ ~ev.ret
    /\ ev.arg \notin states
    /\ states # {}

-----------------------------------------------------------------------------
(* Properties of run_to_completion *)

Continuable == {"Continue", "Transition"}

Fatal == {"StateNotFound", "IncorrectTransition"}

\* C12: run_to_completion has returned exactly when the last step's outcome
\* was not continuable: Some(context as handle left it) for Complete, None
\* for StateNotFound and IncorrectTransition; while it has not returned every
\* step so far was Continue or Transition; after it has returned no runner is
\* left and no further step is made.
C12_RunToCompletionResult ==
    /\ [](loop.mode = "done" =>
            /\ HeldRunners = {}
            /\ loop.last \in {"Complete"} \cup Fatal
            /\ (loop.result.some <=> loop.last = "Complete")
            /\ (loop.last = "Complete" /\ ev.op = "iter" =>
                    loop.result = SomeData(ev.h.data))
            /\ (loop.last \in Fatal => loop.result = NoneData))
    /\ [](loop.mode = "run" =>
            /\ HeldRunners # {}
            /\ loop.last \in {"None"} \cup Continuable)
    /\ [][loop.mode = "done" => ev'.op # "iter"]_vars

C12_Witness ==
    /\ loop.mode = "done"
    /\ loop.last = "Complete"
    /\ loop.result.some
    /\ loop.result.val # 0
    /\ ev.h.data # ev.pre.data

\* C13: run on the same registry, start state, income and context, the
\* verbose loop is always where the plain loop is: same runner, same last
\* outcome, returned or not alike, and the same result.
C13_VerboseRunsAlike ==
    loop.mode # "off" =>
        /\ loop.vmode = loop.mode
        /\ \A r \in HeldRunners : loop.verbose = r
        /\ loop.verbose.some = (HeldRunners # {})
        /\ loop.vlast = loop.last
        /\ loop.vresult = loop.result

C13_Witness ==
    /\ loop.mode = "run"
    /\ loop.last = "Transition"
    /\ loop.printed # << >>
    /\ loop.verbose = outcome.machine
    /\ outcome.machine.data # 0

-----------------------------------------------------------------------------
(* Scenario A: Start, Mid, Stop *)

\* C19: with Start, Mid and Stop registered, run_to_completion from Start
\* with context 0 returns, and returns a context over 10; every step of Mid
\* that finds the counter at most 10 increments it and self-transitions, and
\* the first step of Mid that finds it over 10 goes to Stop.
C19_ScenarioA ==
    /\ []((ev.op = "iter" /\ ev.pre.state_id = "Mid") =>
            IF ev.pre.data <= 10
            THEN /\ outcome.tag = "Continue"
                 /\ outcome.machine.data = ev.pre.data + 1
                 /\ outcome.machine.state_id = "Mid"
            ELSE /\ Dest = "Stop"
                 /\ outcome.tag = IF "Stop" \in states
                                  THEN "Transition" ELSE "StateNotFound"
                 /\ ("Stop" \in states => outcome.machine.state_id = "Stop"))
    /\ []((loop.mode = "done" /\ ev.op = "iter" /\ states = MainKinds) =>
            /\ loop.result.some
            /\ loop.result.val > 10
            /\ loop.result.val = 11)
    /\ (loop.mode = "run" ~> loop.mode = "done")

C19_Witness ==
    /\ loop.mode = "done"
    /\ ev.op = "iter"
    /\ ev.pre.state_id = "Stop"
    /\ ev.pre.state.field = "11"
    /\ states = MainKinds
    /\ loop.result = SomeData(11)

-----------------------------------------------------------------------------
(* The timed-state decorator *)

\* a step that the decorator of a timed state handled
TimedStepped == ev.op = "step" /\ ev.pre.state.kind \in TimedKinds

\* C16: on a step of a timed state, only handle_if_not_timeout runs when the
\* time since entry is strictly less than the timeout, and only
\* handle_once_timeout runs when it is at or past the timeout, the timeout
\* itself included.
C16_TimeoutAtOrPast ==
    TimedStepped =>
        IF tm.elapsed < tm.limit
        THEN tm.called = << "handle_if_not_timeout" >>
        ELSE tm.called = << "handle_once_timeout" >>

\* C17: once a step of an entry has run handle_once_timeout, every later step
\* of that entry runs handle_once_timeout and never handle_if_not_timeout;
\* self-transitions do not move the entry instant.
C17_TimeoutIsFinal ==
    /\ [][(tm.fired > 0 /\ runner.some /\ ~runner'.some /\ ev'.op = "step") =>
            tm'.called = << "handle_once_timeout" >>]_vars
    /\ [][(outcome.tag = "Continue" /\ runner'.some) =>
            (tm'.start_time = tm.start_time /\ tm'.timeout = tm.timeout)]_vars

C17_Witness ==
    /\ TimedStepped
    /\ tm.fired = 2
    /\ tm.called = << "handle_once_timeout" >>
    /\ outcome.tag = "Continue"

\* C18: a step of a timed state calls exactly one of the two inner handlers
\* and hands the engine what that handler returned: the same destination,
\* payload and name, with the instance and context as that handler left them.
C18_DecoratorForwards ==
    TimedStepped =>
        /\ Len(tm.called) = 1
        /\ tm.called[1] \in {"handle_if_not_timeout", "handle_once_timeout"}
        /\ state_type(ev.h.outcome) = state_type(tm.inner.outcome)
        /\ data(ev.h.outcome) = data(tm.inner.outcome)
        /\ name(ev.h.outcome) = name(tm.inner.outcome)
        /\ ev.h = tm.inner
        /\ outcome.tag \in {"StateNotFound", "Complete"} =>
              outcome.transition = name(tm.inner.outcome)

C18_Witness ==
    /\ TimedStepped
    /\ tm.called = << "handle_once_timeout" >>
    /\ outcome.tag = "StateNotFound"
    /\ outcome.transition = "WrongData"
    /\ outcome.end = "End"

-----------------------------------------------------------------------------
(* Scenario B: Submerge *)

\* C20: every step of Submerge, with AlignGate registered, stays in Submerge
\* while the depth is not within the tolerance of the target and the timeout
\* has not elapsed, and transitions to AlignGate as soon as the depth is
\* within tolerance or the time since entry has reached the timeout.
C20_ScenarioB ==
    (ev.op = "step" /\ ev.pre.state_id = "Submerge" /\ "AlignGate" \in states) =>
        IF \/ Abs(ev.pre.data.pose - SUBMERGE_HEAVE) < SUBMERGE_HEAVE_TOLERANCE
           \/ tm.elapsed >= SUBMERGE_TIMEOUT
        THEN /\ outcome.tag = "Transition"
             /\ outcome.machine.state_id = "AlignGate"
        ELSE /\ outcome.tag = "Continue"
             /\ outcome.machine.state_id = "Submerge"

-----------------------------------------------------------------------------
(* Outcomes of a step, as the caller sees them *)

\* the payload a step would hand to the destination's entry hook
Fits == data(Returned).shape = Income(Dest)

\* C21: every step returns one of the five StepOutcome values; an
\* unregistered destination and a payload of the wrong shape come back as
\* StateNotFound and IncorrectTransition, with the names and the offending
\* identity or payload in them, never as an abort and never as a runner
\* that goes on.
C21_DefectsAreReturned ==
    Stepped =>
        /\ outcome.tag \in {"Continue", "Transition", "Complete", "StateNotFound",
                            "IncorrectTransition"}
        /\ UnresolvedStep =>
              (outcome.tag = "StateNotFound" /\ outcome.end = Dest)
        /\ (EnteringStep /\ ~Fits) =>
              /\ outcome.tag = "IncorrectTransition"
              /\ outcome.received_data = data(Returned)
        /\ (UnresolvedStep \/ (EnteringStep /\ ~Fits)) => HeldRunners = {}

C21_Witness ==
    /\ Stepped
    /\ EnteringStep
    /\ Returned.boxed
    /\ outcome.tag = "IncorrectTransition"
    /\ outcome.received_data.shape = "BoxedOutcome"

\* C24: a Transition reports the display name of the state active before
\* the step, the name of the transition it returned and the display name
\* of the state entered; Complete, StateNotFound and IncorrectTransition
\* report the same start and transition names.
C24_OutcomeNames ==
    (Stepped /\ outcome.tag # "Continue") =>
        /\ outcome.start = StateName(ev.pre.state)
        /\ outcome.transition = name(Returned)
        /\ outcome.tag = "Transition" =>
              /\ outcome.end = StateName(outcome.machine.state)
              /\ outcome.end = StateName(StateHolder_new(Dest))
        /\ outcome.tag = "IncorrectTransition" =>
              outcome.end = StateName(StateHolder_new(Dest))

C24_Witness ==
    /\ Stepped
    /\ outcome.tag = "Transition"
    /\ outcome.start = "Start"
    /\ outcome.transition = "Working"
    /\ outcome.end = "End"

\* C25: after Complete, StateNotFound or IncorrectTransition nobody holds a
\* runner of that run, and the run takes no further step and binds nothing;
\* Continue and Transition hold a runner that can be stepped again.
C25_RunIsOver ==
    /\ [](outcome.tag \in {"Complete", "StateNotFound", "IncorrectTransition"} =>
            (~runner.some /\ ~outcome.machine.some))
    /\ [](outcome.tag \in {"Continue", "Transition"} =>
            (outcome.machine.some /\ outcome.machine.state_id \in states))
    /\ [][outcome.tag \in {"Complete", "StateNotFound", "IncorrectTransition"} =>
            ev'.op \notin {"step", "rebind", "drive"}]_vars

C25_Witness ==
    /\ Stepped
    /\ outcome.tag = "StateNotFound"
    /\ ev.pre.state_id = "End"
    /\ ~runner.some
    /\ ~outcome.machine.some

\* C28: the outcome of a step is decided in this order: destination equal
\* to the active identity gives Continue, else the sentinel gives Complete,
\* else a destination missing from the registry gives StateNotFound, else
\* the entry's type check gives Transition or IncorrectTransition; no
\* lookup is made for a self-transition or for the sentinel.
C28_OutcomePriority ==
    Stepped =>
        /\ outcome.tag =
              CASE Dest = ev.pre.state_id -> "Continue"
                [] Dest = UnitTypeId -> "Complete"
                [] Dest \notin states -> "StateNotFound"
                [] Fits -> "Transition"
                [] OTHER -> "IncorrectTransition"
        /\ (Dest = ev.pre.state_id \/ Dest = UnitTypeId) => ev.made = << >>

C28_Witness ==
    /\ Stepped
    /\ Dest = UnitTypeId
    /\ Returned.carrier = "Custom"
    /\ ~Fits
    /\ outcome.tag = "Complete"
    /\ ev.made = << >>

\* C29: a handle that returns an already boxed canonical carrier gives the
\* step the carrier gives: the same destination and name, and on a
\* transition to another registered state the carrier's own payload reaches
\* the entry hook, so a payload of the destination's income shape yields
\* Transition.
C29_BoxedBehavesLikeCarrier ==
    (Stepped /\ Returned.boxed
       /\ Returned.carrier \in {"Unit", "OutcomeData", "ContinueOutcome"}) =>
        /\ state_type(Returned) = Returned.target
        /\ name(Returned) = Returned.label
        /\ outcome = step(ev.pre, states, [ev.h EXCEPT !.outcome.boxed = FALSE]).out
        /\ (EnteringStep /\ Returned.income.shape = Income(Dest)) =>
              /\ outcome.tag = "Transition"
              /\ ev.inits = << [seen |-> StateHolder_new(Dest),
                                previous |-> Returned.income] >>

\* C30: IncorrectTransition is the outcome of exactly the steps whose handle
\* returns a transition to another registered state with a payload of the
\* wrong shape; a self-transition with such a payload continues, and
\* registration and runner construction check no payload of any transition.
C30_MismatchOnlyAtEntry ==
    /\ outcome.tag = "IncorrectTransition" => (Stepped /\ EnteringStep /\ ~Fits)
    /\ (Stepped /\ ~(EnteringStep /\ ~Fits)) => outcome.tag # "IncorrectTransition"
    /\ (SelfStep /\ ~Fits) => outcome.tag = "Continue"
    /\ ev.op \in {"add_state", "remove_state", "new"} => outcome = NoOutcome
    /\ (ev.op = "new" /\ ev.arg \in states) => runner.some

C30_Witness ==
    /\ Stepped
    /\ outcome.tag = "IncorrectTransition"
    /\ ev.pre.state_id = "Start"
    /\ ev.pre.state.field # 0
    /\ Returned.label = "WrongData"
    /\ outcome.received_data.shape = "RangeFull"

-----------------------------------------------------------------------------
(* The sentinel and the registry *)

\* C22: the sentinel identity is never registered, and the sentinel's
\* carrier answers the sentinel as destination, the empty payload and the
\* name "(Complete)"; a step that gets it completes under that name.
C22_SentinelIsReserved ==
    /\ UnitTypeId \notin states
    /\ states \subseteq Kinds
    /\ state_type(UnitOutcome) = UnitTypeId
    /\ data(UnitOutcome) = UnitPayload
    /\ name(UnitOutcome) = "(Complete)"
    /\ (Stepped /\ Returned.carrier = "Unit" /\ ~Returned.boxed) =>
          /\ outcome.tag = "Complete"
          /\ outcome.transition = "(Complete)"
          /\ ev.extracted = 0

C22_Witness ==
    /\ Stepped
    /\ Returned.carrier = "Unit"
    /\ ~Returned.boxed
    /\ outcome.tag = "Complete"
    /\ outcome.transition = "(Complete)"
    /\ states = Kinds

\* C26: remove_state answers whether the kind was registered when called
\* and leaves it unregistered: constructing it finds nothing and no runner
\* starts from it; a runner starts from a kind only while it is registered,
\* and registering it again makes it constructible.
C26_RemoveUnregisters ==
    /\ [][ev'.op = "remove_state" =>
            /\ ev'.ret = (ev'.arg \in states)
            /\ states' = states \ {ev'.arg}
            /\ ~make_state(states', ev'.arg).some
            /\ \A d \in Datas, v \in Vals : ~new(states', ev'.arg, d, v).some]_vars
    /\ []((ev.op = "new" /\ ev.ret) => ev.arg \in states)
    /\ [](ev.op = "add_state" => make_state(states, ev.arg).some)

C26_Witness ==
    /\ ev.op = "remove_state"
    /\ ev.ret
    /\ ev.arg \notin states
    /\ states # {}

\* C23: the registry changes neither in runner construction, nor in a step,
\* nor in the match that ends a turn of run_to_completion; while a runner or
\* an outcome of a run exists the registered kinds stay what they were.
C23_RegistryIsFrozen ==
    /\ [][ev'.op \in {"new", "iter", "match"} => states' = states]_vars
    /\ [][(runner.some \/ outcome # NoOutcome) => states' = states]_vars
    /\ [][(runner'.some \/ outcome' # NoOutcome) => states' = states]_vars

C23_Witness ==
    /\ ev.op = "iter"
    /\ outcome.tag = "StateNotFound"
    /\ outcome.end = "MissingState"
    /\ states = {"Start", "End"}

\* C27: is_notable is false exactly for Continue, so a turn of the verbose
\* loop writes one line, the outcome's description, for a Transition,
\* Complete, StateNotFound or IncorrectTransition, and nothing for a
\* Continue.
C27_VerbosePrintsNotable ==
    /\ outcome # NoOutcome => (is_notable(outcome) <=> outcome.tag # "Continue")
    /\ ev.op = "iter" =>
          /\ loop.vlast \in {"Continue", "Transition", "Complete", "StateNotFound",
                             "IncorrectTransition"}
          /\ (loop.printed = << >>) <=> (loop.vlast = "Continue")
          /\ loop.vlast # "Continue" =>
                (loop.printed = << Display(outcome) >> /\ loop.printed[1] # "")

C27_Witness ==
    /\ ev.op = "iter"
    /\ loop.vlast = "IncorrectTransition"
    /\ Len(loop.printed) = 1
    /\ loop.mode = "done"

-----------------------------------------------------------------------------
(* Entry hooks and handle calls *)

C32_ConstructionEntersOnce ==
    (ev.op = "new" /\ ev.arg \in states) =>
        /\ ev.ret
        /\ ev.enters = 1
        /\ Len(ev.inits) = 1
        /\ ev.inits[1].seen = StateHolder_new(ev.arg)
        /\ ev.inits[1].previous.shape = Income(ev.arg)
        /\ runner.some
        /\ runner.state = init(StateHolder_new(ev.arg), ev.inits[1].previous)
        /\ ev.h = NoHandle
        /\ outcome = NoOutcome

C32_Witness ==
    /\ ev.op = "new"
    /\ ev.ret
    /\ Len(ev.inits) = 1
    /\ ev.inits[1].previous.val # 0
    /\ runner.state.field = ev.inits[1].previous.val

\* C35: a step makes one handle call, on the instance and context the
\* runner held when the step began; a step that enters a state leaves the
\* entered instance as its entry hook made it and the context as that one
\* handle call left it, so the entered state's handle runs first on the
\* next step.
C35_OneHandlePerStep ==
    /\ [](Stepped =>
            /\ ev.h \in HandleResults(ev.pre.state, ev.pre.data)
            /\ ev.h.state.kind = ev.pre.state_id
            /\ outcome.tag = "Transition" =>
                  /\ outcome.machine.state =
                        init(StateHolder_new(Dest), data(Returned))
                  /\ outcome.machine.data = ev.h.data
            /\ outcome.tag = "Continue" =>
                  /\ outcome.machine.state = ev.h.state
                  /\ outcome.machine.data = ev.h.data)
    /\ [][(runner.some /\ ~runner'.some /\ ev'.op = "step") =>
            /\ ev'.pre = runner
            /\ ev'.h \in HandleResults(runner.state, runner.data)]_vars

\* the step after the one that entered End: End's first handle call
C35_Witness ==
    /\ Stepped
    /\ ev.pre.state_id = "End"
    /\ ev.pre.state = init(StateHolder_new("End"), Payload("isize", 1))
    /\ ev.h.state # ev.pre.state
    /\ outcome.tag = "Continue"

\* C36: a step that ends in IncorrectTransition constructs the destination
\* and calls enter on it, but the type check fails before init: no entry
\* hook runs, and every entry hook that ever runs gets a payload of its
\* state's income shape.
C36_NoHookOnMismatch ==
    /\ (Stepped /\ outcome.tag = "IncorrectTransition") =>
          /\ ev.inits = << >>
          /\ ev.enters = 1
          /\ ev.made = << Dest >>
          /\ outcome.expected_type # outcome.received_data.shape
    /\ \A i \in 1..Len(ev.inits) :
          ev.inits[i].previous.shape = Income(ev.inits[i].seen.kind)

C36_Witness ==
    /\ Stepped
    /\ outcome.tag = "IncorrectTransition"
    /\ ev.inits = << >>
    /\ ev.enters = 1
    /\ ev.made = << "End" >>

-----------------------------------------------------------------------------
(* The timed decorator's timeout and entry instant *)

TimedEntry(k) == k # << >> /\ k[1].seen.kind \in TimedKinds

\* C33: a timed state's timeout is what its inner entry hook returned, or
\* zero when the hook returned no override; the entry instant is the clock
\* at the entry, an entry sets both, and nothing but an entry (or dropping
\* the instance) changes either.
C33_TimeoutFromEntry ==
    /\ [](tm.timeout = IF tm.asked.some THEN tm.asked.val ELSE 0)
    /\ [][((\/ ~runner.some /\ runner'.some /\ ev'.op = "new"
            \/ runner.some /\ ~runner'.some /\ ev'.op = "step")
           /\ TimedEntry(ev'.inits)) =>
            /\ tm'.start_time = tm.now
            /\ tm'.asked \in TimedState_init(ev'.inits[1].seen.kind)]_vars
    /\ [][(tm'.start_time # tm.start_time \/ tm'.timeout # tm.timeout) =>
            \/ ev'.op \in {"new", "step"} /\ ev' # ev /\ TimedEntry(ev'.inits)
            \/ ev'.op = "discard" /\ ~runner'.some]_vars

\* a later entry, with an override, after time has passed
C33_Witness ==
    /\ ev.op = "new"
    /\ TimedEntry(ev.inits)
    /\ tm.asked.some
    /\ tm.timeout = tm.asked.val
    /\ tm.timeout > 0
    /\ tm.start_time = tm.now
    /\ tm.start_time > 0

-----------------------------------------------------------------------------
(* Scenario A, outcome by outcome *)

\* a turn of the run_to_completion loop in main.rs, all three states registered
TurnA(id) == ev.op = "iter" /\ states = MainKinds /\ ev.pre.state_id = id

\* C34: in Scenario A the step of Start, with context 0, is a Transition
\* from "Start" to "Mid" that runs Mid's entry hook with seed 0; each step
\* of Mid with a context of at most 10 is a Continue that adds one to the
\* context, runs no entry hook and leaves Mid's seed 0; the step of Mid with
\* context 11 is the Transition "MidOutcome::End" from "Mid" to "Stop"; the
\* step of Stop is Complete from "Stop" by "(Complete)".
C34_ScenarioATrace ==
    /\ TurnA("main::Start") =>
          /\ ev.pre.data = 0
          /\ outcome.tag = "Transition"
          /\ outcome.start = "Start"
          /\ outcome.transition = "StartTransition"
          /\ outcome.end = "Mid"
          /\ outcome.machine.state_id = "Mid"
          /\ outcome.machine.data = 0
          /\ ev.inits = << [seen |-> StateHolder_new("Mid"),
                            previous |-> Payload("i32", 0)] >>
          /\ outcome.machine.state.field = 0
    /\ TurnA("Mid") =>
          /\ ev.pre.data \in 0..(MidLimit + 1)
          /\ ev.pre.state.field = 0
          /\ \A i \in 1..Len(ev.inits) : ev.inits[i].seen.kind # "Mid"
          /\ IF ev.pre.data <= MidLimit
             THEN /\ outcome.tag = "Continue"
                  /\ outcome.machine.data = ev.pre.data + 1
                  /\ outcome.machine.state = ev.pre.state
                  /\ data(Returned).val = ev.pre.data + 1 + MidOffset
                  /\ ev.inits = << >>
             ELSE /\ outcome.tag = "Transition"
                  /\ outcome.start = "Mid"
                  /\ outcome.transition = "MidOutcome::End"
                  /\ outcome.end = "Stop"
                  /\ outcome.machine.state_id = "Stop"
                  /\ outcome.machine.data = MidLimit + 1
    /\ TurnA("Stop") =>
          /\ ev.pre.data = MidLimit + 1
          /\ outcome.tag = "Complete"
          /\ outcome.start = "Stop"
          /\ outcome.transition = "(Complete)"
          /\ outcome.data = MidLimit + 1
          /\ ev.inits = << >>

\* the last Continue of Mid: the context reaches 11, the seed is still 0
C34_Witness ==
    /\ TurnA("Mid")
    /\ outcome.tag = "Continue"
    /\ outcome.machine.data = MidLimit + 1
    /\ outcome.machine.state.field = 0
    /\ data(Returned).val = MidLimit + 1 + MidOffset

-----------------------------------------------------------------------------
(* Two runners of one registry *)

\* what one binding may become when its runner is made, stepped or dropped
\* with no other runner around
Alone(own, next, out) ==
    \/ next = own
    \/ ~own.some /\ \E d \in Datas : next = new(states, "main::Start", d, 0).runner
    \/ own.some /\ next = NoRunner /\ out = NoOutcome
    \/ /\ own.some
       /\ \E h \in HandleResults(own.state, own.data) :
             /\ out = step(own, states, h).out
             /\ next = out.machine

\* C37: a step, construction or drop of one of two runners of the same
\* registry leaves the other runner's context, instance and identity and the
\* registry as they were, and what it does to its own runner, and the
\* outcome it returns, is what it would be with no other runner around.
C37_RunnersIndependent ==
    [][/\ runner' # runner => (peer' = peer /\ states' = states)
       /\ peer' # peer => (runner' = runner /\ states' = states)
       /\ states' # states => (~runner.some /\ ~peer.some)
       /\ Alone(runner, runner', outcome')
       /\ Alone(peer, peer', outcome')]_vars

\* both runners are held, in different states with different contexts,
\* after a step
C37_Witness ==
    /\ ev.op = "step"
    /\ runner.some
    /\ peer.some
    /\ runner.state_id = "Mid"
    /\ peer.state_id = "Stop"
    /\ runner.data # peer.data
    /\ outcome.tag = "Continue"

-----------------------------------------------------------------------------
(* Entry hooks per run *)

\* C38: over a run, the entry hook has run once for the construction and
\* once for each Transition outcome: a step that adds to the hooks adds one
\* and is a Transition, and a step with any other outcome adds none.
C38_HooksCountTransitions ==
    /\ [](count = NoCount \/ count.hooks = 1 + count.transitions)
    /\ [][(runner.some /\ ev'.op = "step" /\ count' # count) =>
            /\ ev'.arg = "Transition"
            /\ count'.hooks = count.hooks + 1
            /\ count'.transitions = count.transitions + 1]_vars
    /\ [][(runner.some /\ ev'.op = "step" /\ ev' # ev /\ ev'.arg # "Transition") =>
            count' = count]_vars
    /\ [][(~runner.some /\ runner'.some) =>
            count' = [hooks |-> 1, transitions |-> 0]]_vars

\* a run of two Transitions that has ended in an IncorrectTransition
C38_Witness ==
    /\ ev.op = "step"
    /\ ev.arg = "IncorrectTransition"
    /\ count.transitions = 2
    /\ count.hooks = 3

====
